---- MODULE Spec2Model ----
(***************************************************************************)
(* ABC / XYZ inventory classification (abc_analyzer.py, xyz_analyzer.py).  *)
(*                                                                         *)
(* A table (pandas DataFrame) is a sequence of records.  A key that is     *)
(* missing (NaN / None) is the value NaN.  Values are integers (the unit   *)
(* is arbitrary: the classifiers only use sums and ratios of Values), as   *)
(* they stand after fillna(0.0); a ratio is kept exact as a pair           *)
(* <<numerator, denominator>>.  Thresholds of the ABC classifier are in    *)
(* hundredths (80 is 0.80).  A coefficient of variation is kept in fixed   *)
(* point.  The tables given to the XYZ classifier have no missing key.     *)
(***************************************************************************)
EXTENDS Integers, Sequences, FiniteSets

VARIABLES df, pc, args, agg_df, sku_stats, thresholds, result

vars == <<df, pc, args, agg_df, sku_stats, thresholds, result>>

----------------------------------------------------------------------------
(* Bounds of the model *)

AbcMaxRows == 2

XyzMaxRows == 4

GapMaxRows == 3

(* A cv is kept in fixed point, in units of 1 / CvScale *)
CvScale == 100

(* The missing key (NaN): no SKU and no Period is 0 *)
NaN == 0

AbcSKUs == {NaN, 1, 2, 3}

AbcPeriods == {NaN, 1, 2}

AbcValues == {-1, 0, 1, 4}

(* <<a_threshold, b_threshold>> in hundredths; <<80, 95>> is the default *)
AbcThresholds == {<<80, 95>>, <<50, 80>>, <<80, 100>>, <<95, 80>>, <<0, 50>>}

(* Input tables of the XYZ classifier: three SKUs over two periods *)
XyzSKUs == {1, 2, 3}

XyzPeriods == {1, 2}

(* Input tables with a gap: two SKUs over three periods *)
GapSKUs == {1, 2}

GapPeriods == {1, 2, 3}

XyzValues == {0, 10}

DataModes == {"dense", "sparse", "full"}

----------------------------------------------------------------------------
(* Helpers on sequences *)

RECURSIVE SumValues(_)
SumValues(s) ==
    IF s = <<>> THEN 0 ELSE Head(s).Value + SumValues(Tail(s))

RECURSIVE Flatten(_)
Flatten(ss) ==
    IF ss = <<>> THEN <<>> ELSE Head(ss) \o Flatten(Tail(ss))

(* a/b <= c/d for ratios <<a, b>>, <<c, d>> with non-zero denominators *)
RatioLeq(x, y) ==
    IF (x[2] > 0) = (y[2] > 0)
        THEN x[1] * y[2] <= y[1] * x[2]
        ELSE x[1] * y[2] >= y[1] * x[2]

----------------------------------------------------------------------------
(* assign_abc_groups *)

(* Group keys <<k1, k2>> of a two-column groupby, in ascending order *)
KeyBefore(k1, k2) ==
    \/ k1[1] < k2[1]
    \/ k1[1] = k2[1] /\ k1[2] < k2[2]

RECURSIVE SortedKeys(_)
SortedKeys(K) ==
    IF K = {} THEN <<>>
    ELSE LET k == CHOOSE x \in K : \A y \in K \ {x} : KeyBefore(x, y)
         IN  <<k>> \o SortedKeys(K \ {k})

(* df.groupby(['Period', 'SKU'], as_index=False)['Value'].sum(): rows with a
   NaN key are dropped (dropna=True), groups are sorted by key *)
Aggregate(t) ==
    LET K == {<<t[i].Period, t[i].SKU>> : i \in {j \in DOMAIN t :
                  t[j].Period # NaN /\ t[j].SKU # NaN}}
        ks == SortedKeys(K)
    IN  [n \in DOMAIN ks |->
            [Period |-> ks[n][1], SKU |-> ks[n][2],
             Value |-> SumValues(SelectSeq(t, LAMBDA r :
                           r.Period = ks[n][1] /\ r.SKU = ks[n][2]))]]

(* Row r sorts strictly before row q under ['Period', 'Value'],
   ascending=[True, False] *)
SortsBefore(r, q) ==
    \/ r.Period < q.Period
    \/ r.Period = q.Period /\ r.Value > q.Value

(* Stable insertion: r goes after every row that does not sort after it *)
RECURSIVE InsertStable(_, _)
InsertStable(s, r) ==
    IF s = <<>> THEN <<r>>
    ELSE IF SortsBefore(r, Head(s)) THEN <<r>> \o s
    ELSE <<Head(s)>> \o InsertStable(Tail(s), r)

RECURSIVE SortValues(_)
SortValues(t) ==
    IF t = <<>> THEN <<>>
    ELSE InsertStable(SortValues(SubSeq(t, 1, Len(t) - 1)), t[Len(t)])

(* Variant of TotalPeriodValue: the total of the whole table, not grouped by
   Period *)
TotalValueUngrouped(t, i) == SumValues(t)

(* groupby('Period')['Value'].transform('sum') at row i *)
TotalPeriodValue(t, i) ==
    SumValues(SelectSeq(t, LAMBDA r : r.Period = t[i].Period))

(* Variant of CumulativeValue: the running sum of the rows before row i,
   row i left out *)
CumulativeValueExclusive(t, i) ==
    SumValues(SelectSeq(SubSeq(t, 1, i - 1), LAMBDA r : r.Period = t[i].Period))

(* groupby('Period')['Value'].cumsum() at row i *)
CumulativeValue(t, i) ==
    SumValues(SelectSeq(SubSeq(t, 1, i), LAMBDA r : r.Period = t[i].Period))

(* Variant of CumulativePercent: the division without the zero-total guard *)
CumulativePercentUnguarded(cum, total) == <<cum, total>>

(* np.where(total == 0, 1.0, cum / total) *)
CumulativePercent(cum, total) ==
    IF total = 0 THEN <<1, 1>> ELSE <<cum, total>>

(* Variant of classify_abc: the thresholds as exclusive upper bounds *)
classify_abc_exclusive(cum_pct, total_val, a_threshold, b_threshold) ==
    IF total_val = 0 THEN "C"
    ELSE IF ~RatioLeq(<<a_threshold, 100>>, cum_pct) THEN "A"
    ELSE IF ~RatioLeq(<<b_threshold, 100>>, cum_pct) THEN "B"
    ELSE "C"

classify_abc(cum_pct, total_val, a_threshold, b_threshold) ==
    IF total_val = 0 THEN "C"
    ELSE IF RatioLeq(cum_pct, <<a_threshold, 100>>) THEN "A"
    ELSE IF RatioLeq(cum_pct, <<b_threshold, 100>>) THEN "B"
    ELSE "C"

(* agg_df with its derived columns *)
AbcAggDf(t, a_threshold, b_threshold) ==
    LET s == SortValues(Aggregate(t))
    IN  [i \in DOMAIN s |->
            LET total == TotalPeriodValue(s, i)
                cum   == CumulativeValue(s, i)
                pct   == CumulativePercent(cum, total)
            IN  [Period |-> s[i].Period, SKU |-> s[i].SKU, Value |-> s[i].Value,
                 Total_Period_Value |-> total,
                 Cumulative_Value |-> cum,
                 Cumulative_Percent |-> pct,
                 ABC_Group |-> classify_abc(pct, total, a_threshold, b_threshold)]]

(* pd.merge(df, agg_df[['Period', 'SKU', 'ABC_Group']], on=['Period', 'SKU'],
   how='left'): one output row per matching right row, or one row with a
   missing ABC_Group when no right row matches *)
AbcMergeRow(r, agg) ==
    LET m == SelectSeq(agg, LAMBDA g : g.Period = r.Period /\ g.SKU = r.SKU)
    IN  IF m = <<>>
            THEN <<[SKU |-> r.SKU, Period |-> r.Period, Value |-> r.Value,
                    ABC_Group |-> "NaN"]>>
            ELSE [n \in DOMAIN m |->
                    [SKU |-> r.SKU, Period |-> r.Period, Value |-> r.Value,
                     ABC_Group |-> m[n].ABC_Group]]

AbcMerge(t, agg) ==
    Flatten([i \in DOMAIN t |-> AbcMergeRow(t[i], agg)])

(* One run of assign_abc_groups: agg_df as it stands at the end, and the
   outcome, which is the returned table or the error raised *)
AbcRun(t, a_threshold, b_threshold) ==
    LET agg == AbcAggDf(t, a_threshold, b_threshold)
        result_df == AbcMerge(t, agg)
    IN  [agg_df |-> agg,
         result |->
            IF \E i \in DOMAIN result_df : result_df[i].ABC_Group = "NaN"
                THEN [status |-> "RuntimeError", table |-> <<>>]
                ELSE [status |-> "ok", table |-> result_df]]

assign_abc_groups(t, a_threshold, b_threshold) ==
    AbcRun(t, a_threshold, b_threshold).result

----------------------------------------------------------------------------
(* assign_xyz_groups *)

RECURSIVE SumSquares(_)
SumSquares(s) ==
    IF s = <<>> THEN 0
    ELSE Head(s).Value * Head(s).Value + SumSquares(Tail(s))

(* The largest r in lo..hi with r * r <= x *)
RECURSIVE IsqrtIn(_, _, _)
IsqrtIn(x, lo, hi) ==
    IF lo = hi THEN lo
    ELSE LET mid == (lo + hi + 1) \div 2
         IN  IF mid * mid <= x THEN IsqrtIn(x, mid, hi)
                               ELSE IsqrtIn(x, lo, mid - 1)

Isqrt(x) == IsqrtIn(x, 0, 46340)

(* Series.unique(): the distinct values in order of first appearance *)
RECURSIVE Unique(_)
Unique(s) ==
    IF s = <<>> THEN <<>>
    ELSE LET u == Unique(SubSeq(s, 1, Len(s) - 1))
         IN  IF \E i \in DOMAIN u : u[i] = s[Len(s)]
                 THEN u ELSE Append(u, s[Len(s)])

(* The group keys of groupby("SKU"), ascending *)
RECURSIVE SortedInts(_)
SortedInts(S) ==
    IF S = {} THEN <<>>
    ELSE LET m == CHOOSE x \in S : \A y \in S : x <= y
         IN  <<m>> \o SortedInts(S \ {m})

(* df_out.groupby(["SKU", "Period"], as_index=False)["Value"].sum() *)
PeriodSum(t) ==
    LET K == {<<t[i].SKU, t[i].Period>> : i \in DOMAIN t}
        ks == SortedKeys(K)
    IN  [n \in DOMAIN ks |->
            [SKU |-> ks[n][1], Period |-> ks[n][2],
             Value |-> SumValues(SelectSeq(t, LAMBDA r :
                           r.SKU = ks[n][1] /\ r.Period = ks[n][2]))]]

(* MultiIndex.from_product([all_skus, all_periods]).to_frame() *)
Scaffold(all_skus, all_periods) ==
    Flatten([i \in DOMAIN all_skus |->
                [j \in DOMAIN all_periods |->
                    [SKU |-> all_skus[i], Period |-> all_periods[j]]]])

(* pd.merge(df_scaffold, period_sum, on=["SKU", "Period"], how="left") and
   fillna(0.0) of the Value of the grid rows without a match *)
Densify(t, period_sum) ==
    LET df_scaffold ==
            Scaffold(Unique([i \in DOMAIN t |-> t[i].SKU]),
                     Unique([i \in DOMAIN t |-> t[i].Period]))
        MergeRow(g) ==
            LET m == SelectSeq(period_sum, LAMBDA r :
                         r.SKU = g.SKU /\ r.Period = g.Period)
            IN  IF m = <<>>
                    THEN <<[SKU |-> g.SKU, Period |-> g.Period, Value |-> 0]>>
                    ELSE [n \in DOMAIN m |->
                            [SKU |-> g.SKU, Period |-> g.Period,
                             Value |-> m[n].Value]]
    IN  Flatten([i \in DOMAIN df_scaffold |-> MergeRow(df_scaffold[i])])

(* Variant of StatsInput: the grid is never built *)
StatsInputObservedOnly(t, data_mode) == PeriodSum(t)

StatsInput(t, data_mode) ==
    IF data_mode = "dense" THEN Densify(t, PeriodSum(t)) ELSE PeriodSum(t)

(* The coefficient of variation std_value / |mean_value| of n values with
   sum s1 and sum of squares s2, in fixed point: std_value is the sample
   standard deviation (ddof = 1), 0.0 for a single value (fillna), and cv is
   0.0 when mean_value is 0:
   cv^2 = ((n s2 - s1^2) / (n (n - 1))) / (s1 / n)^2 *)
Cv(n, s1, s2) ==
    IF s1 = 0 \/ n < 2 THEN 0
    ELSE Isqrt((n * (n * s2 - s1 * s1) * CvScale * CvScale)
                   \div ((n - 1) * s1 * s1))

(* stats_input_df.groupby("SKU")["Value"].agg(n_periods="count",
   mean_value="mean", std_value="std"), and the cv column; mean_value is the
   ratio <<sum, n_periods>> *)
SkuStats(stats_input_df) ==
    LET skus == SortedInts({stats_input_df[i].SKU : i \in DOMAIN stats_input_df})
    IN  [k \in DOMAIN skus |->
            LET rows == SelectSeq(stats_input_df, LAMBDA r : r.SKU = skus[k])
            IN  [SKU |-> skus[k],
                 n_periods |-> Len(rows),
                 mean_value |-> <<SumValues(rows), Len(rows)>>,
                 cv |-> Cv(Len(rows), SumValues(rows), SumSquares(rows))]]

MIN_PERIODS == 2

(* is_eligible *)
IsEligible(st) == st.n_periods >= MIN_PERIODS /\ st.mean_value[1] # 0

(* s in ascending order *)
RECURSIVE InsertAsc(_, _)
InsertAsc(s, x) ==
    IF s = <<>> THEN <<x>>
    ELSE IF x < Head(s) THEN <<x>> \o s
    ELSE <<Head(s)>> \o InsertAsc(Tail(s), x)

RECURSIVE SortAsc(_)
SortAsc(s) ==
    IF s = <<>> THEN <<>> ELSE InsertAsc(SortAsc(Tail(s)), Head(s))

(* sku_stats.loc[is_eligible, 'cv'] *)
EligibleCvs(stats) ==
    LET e == SelectSeq(stats, IsEligible)
    IN  [i \in DOMAIN e |-> e[i].cv]

(* Series.quantile(q), linear interpolation, q in hundredths: the value at
   the virtual index q * (k - 1) of the sorted values *)
Quantile(cvs, q) ==
    LET s == SortAsc(cvs)
        pos == q * (Len(s) - 1)
        i == pos \div 100
        f == pos % 100
        lo == s[i + 1]
        hi == IF f = 0 THEN lo ELSE s[i + 2]
    IN  lo + ((hi - lo) * f) \div 100

(* Variant of Thresholds: the two quantiles taken in the other order *)
ThresholdsSwapped(stats) ==
    LET eligible_cvs == EligibleCvs(stats)
    IN  IF eligible_cvs = <<>> THEN <<0, 0>>
        ELSE <<Quantile(eligible_cvs, 66), Quantile(eligible_cvs, 33)>>

(* <<x_threshold, y_threshold>> *)
Thresholds(stats) ==
    LET eligible_cvs == EligibleCvs(stats)
    IN  IF eligible_cvs = <<>> THEN <<0, 0>>
        ELSE <<Quantile(eligible_cvs, 33), Quantile(eligible_cvs, 66)>>

(* Variant of ClassifyXyz: no test of n_periods *)
ClassifyXyzAnyPeriods(st, x_threshold, y_threshold) ==
    IF st.mean_value[1] = 0 THEN ""
    ELSE IF st.cv <= x_threshold THEN "X"
    ELSE IF st.cv <= y_threshold THEN "Y"
    ELSE "Z"

(* Variant of ClassifyXyz: the Y condition listed before the X condition *)
ClassifyXyzYFirst(st, x_threshold, y_threshold) ==
    IF st.n_periods < 2 THEN ""
    ELSE IF st.mean_value[1] = 0 THEN ""
    ELSE IF st.cv <= y_threshold THEN "Y"
    ELSE IF st.cv <= x_threshold THEN "X"
    ELSE "Z"

(* np.select(conditions, choices, default="Z"): the first condition that
   holds decides; a cv is never undefined (no Value is infinite) *)
ClassifyXyz(st, x_threshold, y_threshold) ==
    IF st.n_periods < MIN_PERIODS THEN ""
    ELSE IF st.mean_value[1] = 0 THEN ""
    ELSE IF st.cv <= x_threshold THEN "X"
    ELSE IF st.cv <= y_threshold THEN "Y"
    ELSE "Z"

(* sku_stats with the XYZ column *)
XyzSkuStats(stats, th) ==
    [k \in DOMAIN stats |->
        [SKU |-> stats[k].SKU, n_periods |-> stats[k].n_periods,
         mean_value |-> stats[k].mean_value, cv |-> stats[k].cv,
         XYZ |-> ClassifyXyz(stats[k], th[1], th[2])]]

(* pd.merge(df_out, sku_stats[["SKU", "XYZ", "cv"]], on="SKU", how="left")
   and the two threshold columns *)
XyzMerge(t, stats, th) ==
    LET MergeRow(r) ==
            LET m == SelectSeq(stats, LAMBDA st : st.SKU = r.SKU)
            IN  [n \in DOMAIN m |->
                    [SKU |-> r.SKU, Period |-> r.Period, Value |-> r.Value,
                     XYZ |-> m[n].XYZ, CV |-> m[n].cv,
                     x_threshold_33 |-> th[1], y_threshold_66 |-> th[2]]]
    IN  Flatten([i \in DOMAIN t |-> MergeRow(t[i])])

(* One run of assign_xyz_groups: sku_stats and the thresholds as they stand
   at the end, and the outcome, which is the returned table or the error
   raised at entry *)
XyzRun(t, data_mode) ==
    IF data_mode \notin {"dense", "sparse"}
        THEN [sku_stats |-> <<>>, thresholds |-> <<0, 0>>,
              result |-> [status |-> "ValueError", table |-> <<>>]]
        ELSE LET stats == SkuStats(StatsInput(t, data_mode))
                 th == Thresholds(stats)
                 labelled == XyzSkuStats(stats, th)
             IN  [sku_stats |-> labelled, thresholds |-> th,
                  result |-> [status |-> "ok",
                              table |-> XyzMerge(t, labelled, th)]]

assign_xyz_groups(t, data_mode) == XyzRun(t, data_mode).result

----------------------------------------------------------------------------
(* State machine: the collaborator builds the input table row by row, then
   one classifier is called on it *)

NoArgs == [fn |-> "none"]

Init ==
    /\ df = <<>>
    /\ pc = "input"
    /\ args = NoArgs
    /\ agg_df = <<>>
    /\ sku_stats = <<>>
    /\ thresholds = <<0, 0>>
    /\ result = [status |-> "none", table |-> <<>>]

AbcAddRow ==
    /\ pc = "input"
    /\ Len(df) < AbcMaxRows
    /\ \E s \in AbcSKUs, p \in AbcPeriods, v \in AbcValues :
          df' = Append(df, [SKU |-> s, Period |-> p, Value |-> v])
    /\ UNCHANGED <<pc, args, agg_df, sku_stats, thresholds, result>>

CallAbc ==
    /\ pc = "input"
    /\ \E th \in AbcThresholds :
          /\ args' = [fn |-> "assign_abc_groups",
                      a_threshold |-> th[1], b_threshold |-> th[2]]
          /\ LET run == AbcRun(df, th[1], th[2])
             IN  agg_df' = run.agg_df /\ result' = run.result
    /\ pc' = "done"
    /\ UNCHANGED <<df, sku_stats, thresholds>>

NextAbc == AbcAddRow \/ CallAbc

SpecAbc == Init /\ [][NextAbc]_vars

XyzAddRow ==
    /\ pc = "input"
    /\ Len(df) < XyzMaxRows
    /\ \E s \in XyzSKUs, p \in XyzPeriods, v \in XyzValues :
          df' = Append(df, [SKU |-> s, Period |-> p, Value |-> v])
    /\ UNCHANGED <<pc, args, agg_df, sku_stats, thresholds, result>>

GapAddRow ==
    /\ pc = "input"
    /\ Len(df) < GapMaxRows
    /\ \E s \in GapSKUs, p \in GapPeriods, v \in XyzValues :
          df' = Append(df, [SKU |-> s, Period |-> p, Value |-> v])
    /\ UNCHANGED <<pc, args, agg_df, sku_stats, thresholds, result>>

CallXyz ==
    /\ pc = "input"
    /\ \E m \in DataModes :
          /\ args' = [fn |-> "assign_xyz_groups", data_mode |-> m]
          /\ LET run == XyzRun(df, m)
             IN  /\ sku_stats' = run.sku_stats
                 /\ thresholds' = run.thresholds
                 /\ result' = run.result
    /\ pc' = "done"
    /\ UNCHANGED <<df, agg_df>>

NextXyz == XyzAddRow \/ CallXyz

SpecXyz == Init /\ [][NextXyz]_vars

NextGap == GapAddRow \/ CallXyz

SpecXyzGaps == Init /\ [][NextGap]_vars

----------------------------------------------------------------------------
(* The reference rule of the ABC classification, stated on the input table *)

AbcDone == pc = "done" /\ args.fn = "assign_abc_groups"

HasKey(r) == r.Period # NaN /\ r.SKU # NaN

(* Summed Value of (Period p, SKU s) *)
RefValue(t, p, s) ==
    SumValues(SelectSeq(t, LAMBDA r : r.Period = p /\ r.SKU = s))

(* Total Value of period p over its SKUs *)
RefTotal(t, p) ==
    SumValues(SelectSeq(t, LAMBDA r : HasKey(r) /\ r.Period = p))

(* Running sum at SKU s: every SKU of p with a larger summed Value, or an
   equal one and a SKU not after s *)
RefRunning(t, p, s) ==
    SumValues(SelectSeq(t, LAMBDA r :
        /\ HasKey(r) /\ r.Period = p
        /\ \/ RefValue(t, p, r.SKU) > RefValue(t, p, s)
           \/ RefValue(t, p, r.SKU) = RefValue(t, p, s) /\ r.SKU <= s))

(* running / total <= th / 100, for total # 0 *)
RefShareLeq(running, total, th) ==
    IF total > 0 THEN running * 100 <= th * total
                 ELSE running * 100 >= th * total

RefLabel(t, p, s, a, b) ==
    LET total == RefTotal(t, p)
        running == RefRunning(t, p, s)
    IN  IF RefShareLeq(running, total, a) THEN "A"
        ELSE IF RefShareLeq(running, total, b) THEN "B"
        ELSE "C"

NonNegativePeriod(t, p) ==
    \A i \in DOMAIN t : t[i].Period = p => t[i].Value >= 0

(* The rows of agg_df of period p, in agg_df's order *)
PeriodRows(p) == SelectSeq(agg_df, LAMBDA g : g.Period = p)

----------------------------------------------------------------------------
(* C1: for every input table, assign_abc_groups (here with its default
   thresholds) returns one output row per input row, each with one ABC_Group
   in {A, B, C}, rows of one (Period, SKU) key carry the same group, and the
   'assignment failed' error is never raised, also when keys repeat or a key
   field is missing on some row. *)
C1_EveryRowLabelled ==
    (AbcDone /\ args.a_threshold = 80 /\ args.b_threshold = 95) =>
        /\ result.status = "ok"
        /\ Len(result.table) = Len(df)
        /\ \A i \in DOMAIN result.table :
              /\ result.table[i].ABC_Group \in {"A", "B", "C"}
              /\ i \in DOMAIN df
              /\ result.table[i].SKU = df[i].SKU
              /\ result.table[i].Period = df[i].Period
        /\ \A i, j \in DOMAIN result.table :
              (/\ result.table[i].SKU = result.table[j].SKU
               /\ result.table[i].Period = result.table[j].Period)
                  => result.table[i].ABC_Group = result.table[j].ABC_Group

(* C2: for every period with non-zero total, each (Period, SKU) is labelled
   as the reference rule prescribes (descending summed Value, ties by SKU
   ascending, running sum over period total, inclusive thresholds); two SKUs
   of equal Value in one period under a = 0.80, b = 0.95 get 'A' and 'C'. *)
C2_ReferenceRule ==
    AbcDone =>
        /\ \A i \in DOMAIN df : HasKey(df[i]) =>
              \E n \in DOMAIN agg_df : /\ agg_df[n].Period = df[i].Period
                                       /\ agg_df[n].SKU = df[i].SKU
        /\ \A n \in DOMAIN agg_df :
              RefTotal(df, agg_df[n].Period) # 0 =>
                  agg_df[n].ABC_Group =
                      RefLabel(df, agg_df[n].Period, agg_df[n].SKU,
                               args.a_threshold, args.b_threshold)
        /\ \A i \in DOMAIN result.table :
              RefTotal(df, result.table[i].Period) # 0 =>
                  result.table[i].ABC_Group =
                      RefLabel(df, result.table[i].Period, result.table[i].SKU,
                               args.a_threshold, args.b_threshold)
        /\ (/\ args.a_threshold = 80 /\ args.b_threshold = 95
            /\ Len(df) = 2
            /\ df[1].SKU = 1 /\ df[2].SKU = 2
            /\ df[1].Period = 1 /\ df[2].Period = 1
            /\ df[1].Value = df[2].Value /\ df[1].Value > 0)
               => /\ result.status = "ok"
                  /\ result.table[1].ABC_Group = "A"
                  /\ result.table[2].ABC_Group = "C"

(* C2 witness: the tie of two SKUs, and a share exactly at a_threshold *)
C2_Witness ==
    /\ AbcDone
    /\ args.a_threshold = 80 /\ args.b_threshold = 95
    /\ df = <<[SKU |-> 2, Period |-> 1, Value |-> 4],
              [SKU |-> 1, Period |-> 1, Value |-> 4]>>
    /\ result.status = "ok"
    /\ result.table[1].ABC_Group = "C"
    /\ result.table[2].ABC_Group = "A"

(* C3: a period whose Values sum to 0 has every row labelled 'C' whatever the
   thresholds, its cumulative share is 1.0 on every row, no share is a
   division by zero, and the other periods are classified as if alone. *)
C3_ZeroTotalPeriod ==
    AbcDone =>
        /\ \A n \in DOMAIN agg_df :
              /\ agg_df[n].Cumulative_Percent[2] # 0
              /\ RefTotal(df, agg_df[n].Period) = 0 =>
                    /\ agg_df[n].ABC_Group = "C"
                    /\ agg_df[n].Cumulative_Percent = <<1, 1>>
        /\ \A i \in DOMAIN result.table :
              RefTotal(df, result.table[i].Period) = 0 =>
                  result.table[i].ABC_Group = "C"
        /\ \A p \in AbcPeriods \ {NaN} :
              PeriodRows(p) =
                  AbcAggDf(SelectSeq(df, LAMBDA r : r.Period = p),
                           args.a_threshold, args.b_threshold)

(* C3 witness: a zero-total period beside a period with value, b = 1.0 *)
C3_Witness ==
    /\ AbcDone
    /\ args.b_threshold = 100
    /\ result.status = "ok"
    /\ \E i, j \in DOMAIN result.table :
          /\ RefTotal(df, result.table[i].Period) = 0
          /\ result.table[i].ABC_Group = "C"
          /\ RefTotal(df, result.table[j].Period) > 0
          /\ result.table[j].ABC_Group = "B"

(* C7: invalid configuration is rejected at entry, with no table: a threshold
   outside (0, 1] or a_threshold >= b_threshold fails assign_abc_groups
   (here on a table that has rows) before any row is classified, and a mode
   other than dense or sparse fails assign_xyz_groups before any row is
   classified. *)
C7_InvalidConfigRejected ==
    /\ (/\ AbcDone /\ df # <<>>
        /\ \/ args.a_threshold <= 0 \/ args.a_threshold > 100
           \/ args.b_threshold <= 0 \/ args.b_threshold > 100
           \/ args.a_threshold >= args.b_threshold)
           => /\ result.status \notin {"ok"}
              /\ result.table = <<>>
              /\ agg_df = <<>>
    /\ (/\ pc = "done" /\ args.fn = "assign_xyz_groups"
        /\ args.data_mode \notin {"dense", "sparse"})
           => /\ result.status = "ValueError"
              /\ result.table = <<>>
              /\ sku_stats = <<>>

(* C8: in a period of non-negative Values the cumulative share is
   non-decreasing along the descending-Value order and is exactly 1.0 on the
   last row, or is 1.0 on every row when the period total is 0. *)
C8_CumulativeShare ==
    AbcDone =>
        \A p \in AbcPeriods \ {NaN} :
            NonNegativePeriod(df, p) =>
                LET rows == PeriodRows(p)
                IN  /\ \A n \in 1..(Len(rows) - 1) :
                          /\ rows[n].Value >= rows[n + 1].Value
                          /\ RatioLeq(rows[n].Cumulative_Percent,
                                      rows[n + 1].Cumulative_Percent)
                    /\ rows # <<>> =>
                          /\ rows[Len(rows)].Cumulative_Percent[1]
                                = rows[Len(rows)].Cumulative_Percent[2]
                          /\ rows[Len(rows)].Cumulative_Value
                                = RefTotal(df, p)
                    /\ RefTotal(df, p) = 0 =>
                          \A n \in DOMAIN rows :
                              rows[n].Cumulative_Percent = <<1, 1>>

(* C8 witness: a period of two SKUs with shares 4/5 and 1 *)
C8_Witness ==
    /\ AbcDone
    /\ \E p \in AbcPeriods \ {NaN} :
          /\ NonNegativePeriod(df, p)
          /\ Len(PeriodRows(p)) = 2
          /\ PeriodRows(p)[1].Cumulative_Percent = <<4, 5>>
          /\ PeriodRows(p)[2].Cumulative_Percent = <<5, 5>>

(* C9: with non-negative Values and b_threshold < 1 the SKU ranked last in a
   period is labelled 'C'; so a period of a single SKU with positive Value
   labels it 'C', and a period may have no SKU labelled 'A'. *)
C9_LastRankedIsC ==
    (AbcDone /\ args.b_threshold < 100) =>
        \A p \in AbcPeriods \ {NaN} :
            (NonNegativePeriod(df, p) /\ PeriodRows(p) # <<>>) =>
                PeriodRows(p)[Len(PeriodRows(p))].ABC_Group = "C"

(* C9 witness: a period with two SKUs of positive Value and no 'A' *)
C9_Witness ==
    /\ AbcDone
    /\ args.a_threshold = 50 /\ args.b_threshold = 80
    /\ result.status = "ok"
    /\ \E p \in AbcPeriods \ {NaN} :
          /\ Len(PeriodRows(p)) = 2
          /\ PeriodRows(p)[1].Value > 0 /\ PeriodRows(p)[2].Value > 0
          /\ PeriodRows(p)[1].ABC_Group = "B"
          /\ PeriodRows(p)[2].ABC_Group = "C"

----------------------------------------------------------------------------
(* The XYZ classification, stated on the input table *)

XyzDone ==
    /\ pc = "done" /\ args.fn = "assign_xyz_groups"
    /\ args.data_mode \in {"dense", "sparse"}

(* The distinct periods of the rows of SKU s, and of the whole table *)
OwnPeriods(t, s) == {t[i].Period : i \in {j \in DOMAIN t : t[j].SKU = s}}

AllPeriods(t) == {t[i].Period : i \in DOMAIN t}

(* The periods SKU s is measured over *)
RefPeriods(t, s, data_mode) ==
    IF data_mode = "dense" THEN AllPeriods(t) ELSE OwnPeriods(t, s)

(* Summed Value of SKU s in period p: 0 when s has no row in p *)
RefPeriodValue(t, s, p) ==
    SumValues(SelectSeq(t, LAMBDA r : r.SKU = s /\ r.Period = p))

RefSkuTotal(t, s) == SumValues(SelectSeq(t, LAMBDA r : r.SKU = s))

RECURSIVE RefSumSquares(_, _, _)
RefSumSquares(t, s, P) ==
    IF P = {} THEN 0
    ELSE LET p == CHOOSE x \in P : TRUE
         IN  RefPeriodValue(t, s, p) * RefPeriodValue(t, s, p)
                 + RefSumSquares(t, s, P \ {p})

StatsOf(s) == CHOOSE st \in {sku_stats[k] : k \in DOMAIN sku_stats} : st.SKU = s

Eligible == {k \in DOMAIN sku_stats :
                sku_stats[k].n_periods >= 2 /\ sku_stats[k].mean_value[1] # 0}

(* C4: in both modes the XYZ label of a SKU is "" whenever the SKU has fewer
   than 2 distinct Period values among its own rows or its mean is zero. *)
C4_EmptyLabelOwnPeriods ==
    XyzDone =>
        \A i \in DOMAIN result.table :
            (\/ Cardinality(OwnPeriods(df, result.table[i].SKU)) < 2
             \/ RefSkuTotal(df, result.table[i].SKU) = 0)
                => result.table[i].XYZ = ""

(* C4, amended: the XYZ label of a SKU is "" whenever its mean is zero or
   its n_periods is below 2, n_periods being in sparse mode the number of
   distinct periods among the SKU's own rows and in dense mode the number of
   distinct periods of the whole input. *)
C4_EmptyLabelCountedPeriods ==
    XyzDone =>
        \A i \in DOMAIN result.table :
            (\/ Cardinality(RefPeriods(df, result.table[i].SKU,
                                       args.data_mode)) < 2
             \/ RefSkuTotal(df, result.table[i].SKU) = 0)
                => result.table[i].XYZ = ""

(* C4 witness: sparse mode, a SKU seen in one period stays unlabelled beside
   a labelled SKU *)
C4_Witness ==
    /\ XyzDone /\ args.data_mode = "sparse"
    /\ \E i, j \in DOMAIN result.table :
          /\ Cardinality(OwnPeriods(df, result.table[i].SKU)) = 1
          /\ RefSkuTotal(df, result.table[i].SKU) > 0
          /\ result.table[i].XYZ = ""
          /\ result.table[j].XYZ = "X"

(* C5: dense mode measures every SKU over the grid of all SKUs x all periods
   of the input (n_periods is the number of distinct periods of the input,
   an absent pair counts as Value 0); sparse mode measures a SKU over the
   periods in which it has a row.  A SKU with Value 10 in the first and
   third of 3 periods has n_periods 3 in dense and 2 in sparse mode. *)
C5_DenseSparsePeriods ==
    XyzDone =>
        /\ {sku_stats[k].SKU : k \in DOMAIN sku_stats}
              = {df[i].SKU : i \in DOMAIN df}
        /\ \A k \in DOMAIN sku_stats :
              LET s == sku_stats[k].SKU
                  P == RefPeriods(df, s, args.data_mode)
              IN  /\ sku_stats[k].n_periods = Cardinality(P)
                  /\ sku_stats[k].mean_value
                        = <<RefSkuTotal(df, s), Cardinality(P)>>
                  /\ sku_stats[k].cv
                        = Cv(Cardinality(P), RefSkuTotal(df, s),
                             RefSumSquares(df, s, P))
                  /\ (/\ AllPeriods(df) = {1, 2, 3}
                      /\ OwnPeriods(df, s) = {1, 3}
                      /\ RefPeriodValue(df, s, 1) = 10
                      /\ RefPeriodValue(df, s, 3) = 10)
                         => sku_stats[k].n_periods
                               = IF args.data_mode = "dense" THEN 3 ELSE 2

(* C5 witness: dense mode on the SKU with the gap in the middle period *)
C5_Witness ==
    /\ XyzDone /\ args.data_mode = "dense"
    /\ AllPeriods(df) = {1, 2, 3}
    /\ OwnPeriods(df, 1) = {1, 3}
    /\ RefPeriodValue(df, 1, 1) = 10 /\ RefPeriodValue(df, 1, 3) = 10
    /\ StatsOf(1).n_periods = 3
    /\ StatsOf(1).mean_value = <<20, 3>>
    /\ StatsOf(1).cv > 0

(* C6: the label of a SKU is decided by the first matching rule, in the
   order n_periods < 2 -> "", mean_value = 0 -> "", cv <= x_threshold -> X,
   cv <= y_threshold -> Y, otherwise Z; the label, the cv and the two
   thresholds are written onto every input row of the SKU. *)
C6_PriorityAndBroadcast ==
    XyzDone =>
        /\ \A k \in DOMAIN sku_stats :
              LET st == sku_stats[k]
              IN  /\ st.n_periods < 2 => st.XYZ = ""
                  /\ (st.n_periods >= 2 /\ st.mean_value[1] = 0) => st.XYZ = ""
                  /\ (st.n_periods >= 2 /\ st.mean_value[1] # 0) =>
                        /\ st.cv <= thresholds[1] => st.XYZ = "X"
                        /\ (st.cv > thresholds[1] /\ st.cv <= thresholds[2])
                              => st.XYZ = "Y"
                        /\ (st.cv > thresholds[1] /\ st.cv > thresholds[2])
                              => st.XYZ = "Z"
        /\ result.status = "ok"
        /\ Len(result.table) = Len(df)
        /\ \A i \in DOMAIN result.table :
              /\ result.table[i].SKU = df[i].SKU
              /\ result.table[i].Period = df[i].Period
              /\ result.table[i].Value = df[i].Value
              /\ result.table[i].XYZ = StatsOf(df[i].SKU).XYZ
              /\ result.table[i].CV = StatsOf(df[i].SKU).cv
              /\ result.table[i].x_threshold_33 = thresholds[1]
              /\ result.table[i].y_threshold_66 = thresholds[2]

(* C6 witness: rows labelled X and Y, and two rows of one SKU in different
   periods with the same label *)
C6_Witness ==
    /\ XyzDone
    /\ \E i, j, k \in DOMAIN result.table :
          /\ result.table[i].XYZ = "X"
          /\ result.table[j].XYZ = "Y"
          /\ result.table[k].SKU = result.table[i].SKU
          /\ result.table[k].Period # result.table[i].Period
          /\ result.table[k].XYZ = "X"

(* C10: with at least one eligible SKU, x_threshold <= y_threshold, both lie
   between the smallest and the largest eligible cv, and the eligible SKU of
   smallest cv is labelled X (when all eligible cv are equal every eligible
   SKU is X); with no eligible SKU both thresholds are 0.0 and every SKU is
   labelled "". *)
C10_Thresholds ==
    XyzDone =>
        /\ Eligible # {} =>
              /\ thresholds[1] <= thresholds[2]
              /\ \E k \in Eligible : sku_stats[k].cv <= thresholds[1]
              /\ \E k \in Eligible : thresholds[2] <= sku_stats[k].cv
              /\ \A k \in Eligible :
                    (\A m \in Eligible : sku_stats[k].cv <= sku_stats[m].cv)
                        => sku_stats[k].XYZ = "X"
        /\ Eligible = {} =>
              /\ thresholds = <<0, 0>>
              /\ \A k \in DOMAIN sku_stats : sku_stats[k].XYZ = ""
              /\ \A i \in DOMAIN result.table : result.table[i].XYZ = ""

(* C10 witness: eligible SKUs of different cv, thresholds strictly between
   them, the smaller cv labelled X and no SKU labelled Y *)
C10_Witness ==
    /\ XyzDone
    /\ thresholds[1] < thresholds[2]
    /\ \E k, m \in Eligible :
          /\ sku_stats[k].cv < thresholds[1]
          /\ sku_stats[k].XYZ = "X"
          /\ thresholds[2] < sku_stats[m].cv
          /\ sku_stats[m].XYZ = "Z"
    /\ \A k \in DOMAIN sku_stats : sku_stats[k].XYZ # "Y"

====
